---- MODULE Spec2Model ----
(***************************************************************************)
(* Adapter enumeration / selection / device negotiation of                 *)
(* src/src/main.rs together with the call-result diagnostic layer of       *)
(* src/src/os_helpers.rs (check_hr!, check_hr2!, hr_string).                *)
(*                                                                         *)
(* Text is modelled as Rust models it: a String is its sequence of UTF-8   *)
(* bytes.  Compile-time string fragments whose content is irrelevant       *)
(* (file!():line!(), stringify!($call), fixed captions) are single         *)
(* pseudo-units above the byte range.  Standard output is the sequence of  *)
(* text lines written so far.                                              *)
(*                                                                         *)
(* The platform (DXGI / D3D12 / FormatMessageA / winit) is the environment:*)
(* each platform call draws its result from the set of results the         *)
(* platform can produce for that call.                                     *)
(***************************************************************************)
EXTENDS Integers, Sequences, FiniteSets, TLC

VARIABLES
    opts,       \* parsed command line: [warp, adapter]          main.rs:39-68
    host,       \* number of adapters the factory reports (N)
    msgTable,   \* the system message table FormatMessageA reads, per status code
    pc,         \* position of main
    panicSite,  \* which expect/unwrap panicked ("" while none did)
    i,          \* loop variable of `for i in 0..`                main.rs:107
    factory,    \* handle held by `factory`                       main.rs:103
    adapter,    \* handle held by `adapter`                       main.rs:131
    device,     \* handle held by `device`                        main.rs:151
    cmd_queue,  \* handle held by `cmd_queue`                     main.rs:153
    calls,      \* every platform call issued so far, in order
    checks,     \* every check_hr! expansion executed so far, in order
    out         \* standard output, as a sequence of lines

vars == <<opts, host, msgTable, pc, panicSite, i, factory, adapter, device,
          cmd_queue, calls, checks, out>>

----------------------------------------------------------------------------
(* Bounds of the model *)

MaxAdapters == 3
MaxAdapterOpt == 4

----------------------------------------------------------------------------
(* Status codes (HRESULT is an i32) *)

S_OK == 0
S_FALSE == 1
E_FAIL == -2147467259
DXGI_ERROR_NOT_FOUND == -2005270526

FailureCodes == {E_FAIL, DXGI_ERROR_NOT_FOUND}

SUCCEEDED_onlyZero(hr) == hr = S_OK

SUCCEEDED(hr) == hr >= 0

----------------------------------------------------------------------------
(* Handles *)

Null == [kind |-> "null", id |-> 0]

Handle(kind, id) == [kind |-> kind, id |-> id]

is_null(h) == h.kind = "null"

----------------------------------------------------------------------------
(* Text: sequences of UTF-8 bytes *)

NUL == 0
TAB == 9
NL == 10
SPACE == 32
COLON == 58

Sparkle == <<226, 156, 168>>              \* U+2728
CheckMark == <<226, 156, 148, 239, 184, 143>>  \* U+2714 U+FE0F
CrossMark == <<226, 157, 140>>            \* U+274C
AdapterWord == <<32, 65, 100, 97, 112, 116, 101, 114, 32>>  \* " Adapter "
OpenHex == <<32, 40, 48, 120>>            \* " (0x"
CloseParen == <<41>>                      \* ")"

(* Compile-time text whose content does not matter, one unit per fragment *)
Location(line) == <<1000 + line>>   \* format!("{}:{}", file!(), line!())
CallText(line) == <<2000 + line>>   \* stringify!($call)
Caption(line) == <<3000 + line>>    \* a fixed caption printed at `line`

RECURSIVE Digits(_)
Digits(n) == IF n < 10 THEN <<48 + n>> ELSE Digits(n \div 10) \o <<48 + (n % 10)>>

HexDigit(d) == IF d < 10 THEN 48 + d ELSE 55 + d

(* {:08X} of an i32: the two's complement pattern, upper case, zero padded *)
Hex8(hr) ==
    LET low == IF hr >= 0 THEN hr ELSE (hr + 2147483647) + 1   \* bits 0..30
        top == (low \div (16 ^ 7)) + (IF hr < 0 THEN 8 ELSE 0)  \* bits 28..31
    IN  [k \in 1..8 |-> HexDigit(IF k = 1 THEN top ELSE (low \div (16 ^ (8 - k))) % 16)]

FirstNL(s) ==
    IF \E k \in 1..Len(s) : s[k] = NL
    THEN CHOOSE k \in 1..Len(s) : s[k] = NL /\ \A j \in 1..(k - 1) : s[j] # NL
    ELSE 0

(* The lines a println! of `s` adds to standard output *)
RECURSIVE Split(_)
Split(s) ==
    LET k == FirstNL(s) IN
    IF k = 0 THEN <<s>>
    ELSE <<SubSeq(s, 1, k - 1)>> \o Split(SubSeq(s, k + 1, Len(s)))

Println(o, s) == o \o Split(s)

(* str::replace("\n", "\n\t") *)
RECURSIVE ReplaceNL(_)
ReplaceNL(s) ==
    IF s = <<>> THEN <<>>
    ELSE (IF Head(s) = NL THEN <<NL, TAB>> ELSE <<Head(s)>>) \o ReplaceNL(Tail(s))

Cont(b) == b >= 128 /\ b <= 191

(* std::str::from_utf8: is the byte string well-formed UTF-8 from position k on *)
RECURSIVE Utf8Valid(_, _)
Utf8Valid(b, k) ==
    LET n == Len(b)
        c == b[k]
    IN
    IF k > n \/ \A j \in k..n : b[j] < 128 THEN TRUE   \* the rest is ASCII
    ELSE IF c < 128 THEN Utf8Valid(b, k + 1)
    ELSE IF c >= 194 /\ c <= 223
         THEN k + 1 <= n /\ Cont(b[k + 1]) /\ Utf8Valid(b, k + 2)
    ELSE IF c >= 224 /\ c <= 239
         THEN /\ k + 2 <= n
              /\ Cont(b[k + 1]) /\ Cont(b[k + 2])
              /\ (c = 224 => b[k + 1] >= 160)
              /\ (c = 237 => b[k + 1] <= 159)
              /\ Utf8Valid(b, k + 3)
    ELSE IF c >= 240 /\ c <= 244
         THEN /\ k + 3 <= n
              /\ Cont(b[k + 1]) /\ Cont(b[k + 2]) /\ Cont(b[k + 3])
              /\ (c = 240 => b[k + 1] >= 144)
              /\ (c = 244 => b[k + 1] <= 143)
              /\ Utf8Valid(b, k + 4)
    ELSE FALSE

(* trim_end_matches(char::from(0)): length left after dropping trailing NULs *)
TrimNulLen(b) ==
    IF \E k \in 1..Len(b) : b[k] # NUL
    THEN CHOOSE k \in 1..Len(b) : b[k] # NUL /\ \A j \in (k + 1)..Len(b) : b[j] = NUL
    ELSE 0

AsciiSpace(c) == c \in {9, 10, 11, 12, 13, 32}

(* trim_end(): length left after dropping trailing White_Space characters
   (the one-byte ones and the two-byte U+0085, U+00A0) *)
RECURSIVE TrimEndLen(_, _)
TrimEndLen(b, n) ==
    IF n > 0 /\ AsciiSpace(b[n]) THEN TrimEndLen(b, n - 1)
    ELSE IF n > 1 /\ b[n - 1] = 194 /\ b[n] \in {133, 160} THEN TrimEndLen(b, n - 2)
    ELSE n

----------------------------------------------------------------------------
(* os_helpers.rs *)

BufferLen == 128

(* The message of a success status: plain ASCII, "OK" and a line break *)
SuccessMessage == <<79, 75, 13, 10>>

(* FormatMessageA(FORMAT_MESSAGE_FROM_SYSTEM, .., hr, .., buffer, 128, ..):
   the message the table holds for hr, in a zero-filled buffer *)
FormatMessageA(hr) ==
    LET m == IF hr \in FailureCodes THEN msgTable[hr] ELSE SuccessMessage IN
    [k \in 1..BufferLen |-> IF k <= Len(m) THEN m[k] ELSE NUL]

(* hr_string: panicked is the expect("Invalid utf8") of line 54 firing *)
hr_string(hr) ==
    LET buffer == FormatMessageA(hr)
        success_icon == IF SUCCEEDED(hr) THEN CheckMark ELSE CrossMark
        ok == Utf8Valid(buffer, 1)
        str_len == TrimEndLen(buffer, TrimNulLen(buffer))
        msg == SubSeq(buffer, 1, str_len)
    IN  [panicked |-> ~ok,
         text |-> IF ~ok THEN <<>>
                  ELSE IF msg = <<>>
                  THEN success_icon \o OpenHex \o Hex8(hr) \o CloseParen
                  ELSE success_icon \o OpenHex \o Hex8(hr) \o CloseParen \o <<SPACE>> \o msg]

(* check_hr2!($call) applied to the pair (obj, hr) that $call produced at `line`:
   what it returns, whether it panicked, and standard output afterwards *)
check_hr2(obj, hr, line, o) ==
    IF SUCCEEDED(hr)
    THEN [obj |-> obj, hr |-> hr, panicked |-> FALSE, out |-> o]
    ELSE LET location == Location(line)
             call_site == ReplaceNL(<<NL>> \o CallText(line))
             s == hr_string(hr)
         IN  IF s.panicked
             THEN [obj |-> obj, hr |-> hr, panicked |-> TRUE, out |-> o]
             ELSE [obj |-> obj, hr |-> hr, panicked |-> FALSE,
                   out |-> Println(o, location \o <<COLON, SPACE>> \o s.text
                                      \o <<COLON, NL>> \o call_site)]

(* check_hr!($call): check_hr2! with the status dropped *)
check_hr(obj, hr, line, o) ==
    LET r == check_hr2(obj, hr, line, o) IN
    [obj |-> r.obj, panicked |-> r.panicked, out |-> r.out]

----------------------------------------------------------------------------
(* The platform, as main.rs consumes it *)

(* Messages the system table may hold for a status code (ANSI code page
   bytes): none, "A" followed by a line break, and one with a byte that is
   not UTF-8 (0xE4, a-umlaut in code page 1252) *)
Messages == {<<>>, <<65, 13, 10>>, <<228>>}

(* Status a call returning a COM object may report *)
CallResults == {S_OK, E_FAIL}

(* ... and with a success status other than S_OK *)
CallResultsWide == {S_OK, S_FALSE, E_FAIL}

(* IDXGIFactory1::EnumAdapters1(index) on a host reporting `host` adapters *)
EnumAdaptersResults(index) ==
    IF index < host THEN {S_OK, E_FAIL} ELSE {DXGI_ERROR_NOT_FOUND, E_FAIL}

(* An out-parameter object is set exactly when the call succeeds *)
Produced(hr, h) == IF hr >= 0 THEN h ELSE Null

(* DXGI_ADAPTER_DESC.Description (UTF-16 units, NUL padded) the platform may
   fill in: "A", and one holding an unpaired surrogate *)
Descriptions == {<<65, 0>>, <<55296, 0>>}
ZeroedDescription == <<0, 0>>

(* IDXGIAdapter::GetDesc: status and the Description left in `desc` *)
GetDescResults ==
    [hr : {S_OK}, Description : Descriptions]
        \cup [hr : {E_FAIL}, Description : {ZeroedDescription}]

HighSurrogate(u) == u >= 55296 /\ u <= 56319
LowSurrogate(u) == u >= 56320 /\ u <= 57343

(* String::from_utf16(..).is_ok() *)
RECURSIVE Utf16Valid(_)
Utf16Valid(u) ==
    IF u = <<>> THEN TRUE
    ELSE IF HighSurrogate(u[1])
         THEN Len(u) >= 2 /\ LowSurrogate(u[2]) /\ Utf16Valid(SubSeq(u, 3, Len(u)))
    ELSE IF LowSurrogate(u[1]) THEN FALSE
    ELSE Utf16Valid(Tail(u))

Utf8Of(c) ==
    IF c < 128 THEN <<c>>
    ELSE IF c < 2048 THEN <<192 + (c \div 64), 128 + (c % 64)>>
    ELSE IF c < 65536
         THEN <<224 + (c \div 4096), 128 + ((c \div 64) % 64), 128 + (c % 64)>>
    ELSE <<240 + (c \div 262144), 128 + ((c \div 4096) % 64),
           128 + ((c \div 64) % 64), 128 + (c % 64)>>

(* String::from_utf16(..).unwrap() of a valid unit sequence, as a String *)
RECURSIVE Utf16ToString(_)
Utf16ToString(u) ==
    IF u = <<>> THEN <<>>
    ELSE IF HighSurrogate(u[1])
         THEN Utf8Of(65536 + (u[1] - 55296) * 1024 + (u[2] - 56320))
                  \o Utf16ToString(SubSeq(u, 3, Len(u)))
    ELSE Utf8Of(u[1]) \o Utf16ToString(Tail(u))

----------------------------------------------------------------------------
(* main.rs *)

CallRec(fn, line, h, idx, hr, returned) ==
    [fn |-> fn, line |-> line, h |-> h, idx |-> idx, hr |-> hr, returned |-> returned]

(* One executed check_hr!: what $call produced, what the macro gave back *)
CheckRec(line, obj, hr, r, o) ==
    [line |-> line, hr |-> hr, obj |-> obj, ret |-> r.obj,
     lines |-> SubSeq(r.out, Len(o) + 1, Len(r.out)), panicked |-> r.panicked]

Icon_ignoresWarp(warp, index, k) == IF index = k THEN Sparkle ELSE <<SPACE>>

(* the icon of lines 113-117 *)
Icon(warp, index, k) == IF ~warp /\ index = k THEN Sparkle ELSE <<SPACE>>

(* format!("{} Adapter {}:", icon, i) *)
Label(icon, k) == icon \o AdapterWord \o Digits(k) \o <<COLON>>

(* display_adapter after GetDesc left `d` in desc: panics on the unwrap of
   line 77, else prints the block of lines 89-97 *)
display_adapter(d, label, o) ==
    IF ~Utf16Valid(d.Description)
    THEN [panicked |-> TRUE, out |-> o]
    ELSE [panicked |-> FALSE,
          out |-> Println(o, label \o <<COLON, SPACE>> \o Utf16ToString(d.Description))
                    \o [k \in 1..7 |-> Caption(89 + k)] \o <<<<>>>>]

NextIndex_skip(k) == k + 2

(* `for i in 0..`: the next value of i *)
NextIndex(k) == k + 1

EnumFailureExit_break(panicked) == IF panicked THEN "panicked" ELSE "select"

(* lines 125-126: after the println!, main returns *)
EnumFailureExit(panicked) == IF panicked THEN "panicked" ELSE "EnumFailed"

AfterSelect_noNullCheck(h) == "create_device"

(* lines 144-148: return on a null adapter *)
AfterSelect(h) == IF is_null(h) THEN "AdapterSelectionFailed" ELSE "create_device"

Init ==
    /\ opts \in {[warp |-> TRUE, adapter |-> 0]}
                  \cup {[warp |-> FALSE, adapter |-> n] : n \in 0..MaxAdapterOpt}
    /\ host \in 0..MaxAdapters
    /\ msgTable \in [FailureCodes -> Messages]
    /\ pc = "create_factory"
    /\ panicSite = ""
    /\ i = 0
    /\ factory = Null
    /\ adapter = Null
    /\ device = Null
    /\ cmd_queue = Null
    /\ calls = <<>>
    /\ checks = <<>>
    /\ out = <<>>

(* line 103 *)
CreateFactory ==
    /\ pc = "create_factory"
    /\ \E hr \in CallResults :
         LET obj == Produced(hr, Handle("factory", 0))
             r == check_hr(obj, hr, 103, out)
         IN  /\ calls' = Append(calls, CallRec("Factory4::create", 103, Null, 0, hr, TRUE))
             /\ checks' = Append(checks, CheckRec(103, obj, hr, r, out))
             /\ factory' = r.obj
             /\ out' = r.out
             /\ pc' = IF r.panicked THEN "panicked" ELSE "get_debug"
             /\ panicSite' = IF r.panicked THEN "hr_string" ELSE panicSite
    /\ UNCHANGED <<opts, host, msgTable, i, adapter, device, cmd_queue>>

(* line 104 *)
GetDebug ==
    /\ pc = "get_debug"
    /\ \E hr \in CallResultsWide :
         LET obj == Produced(hr, Handle("debug", 0))
             r == check_hr(obj, hr, 104, out)
         IN  /\ calls' = Append(calls, CallRec("Debug::get_interface", 104, Null, 0, hr, TRUE))
             /\ checks' = Append(checks, CheckRec(104, obj, hr, r, out))
             /\ out' = r.out
             /\ pc' = IF r.panicked THEN "panicked" ELSE "enum_loop"
             /\ panicSite' = IF r.panicked THEN "hr_string" ELSE panicSite
    /\ UNCHANGED <<opts, host, msgTable, i, factory, adapter, device, cmd_queue>>

(* line 108 on a null factory: the method call dereferences the null COM
   pointer, an access violation *)
EnumNullFactory ==
    /\ pc = "enum_loop"
    /\ is_null(factory)
    /\ calls' = Append(calls, CallRec("enumerate_adapters", 108, factory, i, S_OK, FALSE))
    /\ pc' = "crashed"
    /\ UNCHANGED <<opts, host, msgTable, panicSite, i, factory, adapter, device,
                   cmd_queue, checks, out>>

(* lines 108-120: one iteration in which the adapter is retrieved and displayed *)
EnumDisplay ==
    /\ pc = "enum_loop"
    /\ ~is_null(factory)
    /\ \E hr \in EnumAdaptersResults(i), d \in GetDescResults :
         LET this_adapter == Produced(hr, Handle("adapter", i))
             label == Label(Icon(opts.warp, opts.adapter, i), i)
             r == display_adapter(d, label, out)
         IN  /\ SUCCEEDED(hr)
             /\ calls' = calls \o
                    <<CallRec("enumerate_adapters", 108, factory, i, hr, TRUE),
                      CallRec("GetDesc", 74, this_adapter, i, d.hr, TRUE)>>
             /\ out' = r.out
             /\ pc' = IF r.panicked THEN "panicked" ELSE "enum_loop"
             /\ panicSite' = IF r.panicked THEN "from_utf16" ELSE panicSite
             /\ i' = IF r.panicked THEN i ELSE NextIndex(i)
    /\ UNCHANGED <<opts, host, msgTable, factory, adapter, device, cmd_queue, checks>>

(* lines 108, 121-123: the not-found sentinel ends the loop *)
EnumBreak ==
    /\ pc = "enum_loop"
    /\ ~is_null(factory)
    /\ \E hr \in EnumAdaptersResults(i) :
         /\ ~SUCCEEDED(hr)
         /\ hr = DXGI_ERROR_NOT_FOUND
         /\ calls' = Append(calls, CallRec("enumerate_adapters", 108, factory, i, hr, TRUE))
    /\ pc' = "select"
    /\ UNCHANGED <<opts, host, msgTable, panicSite, i, factory, adapter, device,
                   cmd_queue, checks, out>>

(* lines 108, 124-127: any other failure is printed and main returns *)
EnumFail ==
    /\ pc = "enum_loop"
    /\ ~is_null(factory)
    /\ \E hr \in EnumAdaptersResults(i) :
         LET s == hr_string(hr) IN
         /\ ~SUCCEEDED(hr)
         /\ hr # DXGI_ERROR_NOT_FOUND
         /\ calls' = Append(calls, CallRec("enumerate_adapters", 108, factory, i, hr, TRUE))
         /\ out' = IF s.panicked THEN out
                   ELSE Println(out, Caption(125) \o Digits(i) \o <<COLON, SPACE>> \o s.text)
         /\ pc' = EnumFailureExit(s.panicked)
         /\ panicSite' = IF s.panicked THEN "hr_string" ELSE panicSite
    /\ UNCHANGED <<opts, host, msgTable, i, factory, adapter, device, cmd_queue, checks>>

(* lines 131-141: the software (warp) adapter *)
SelectWarp ==
    /\ pc = "select"
    /\ opts.warp
    /\ \E hr \in CallResults :
         LET o1 == Println(out, Caption(132))
             warp_adapter == Produced(hr, Handle("warp", 0))
             r == check_hr(warp_adapter, hr, 134, o1)
         IN  /\ calls' = Append(calls, CallRec("EnumWarpAdapter", 137, factory, 0, hr, TRUE))
             /\ checks' = Append(checks, CheckRec(134, warp_adapter, hr, r, o1))
             /\ adapter' = r.obj
             /\ out' = r.out
             /\ pc' = IF r.panicked THEN "panicked" ELSE "create_device"
             /\ panicSite' = IF r.panicked THEN "hr_string" ELSE panicSite
    /\ UNCHANGED <<opts, host, msgTable, i, factory, device, cmd_queue>>

(* lines 142-149: the adapter at opts.adapter *)
SelectByIndex ==
    /\ pc = "select"
    /\ ~opts.warp
    /\ \E hr \in EnumAdaptersResults(opts.adapter) :
         LET obj == Produced(hr, Handle("adapter", opts.adapter))
             r == check_hr(obj, hr, 143, out)
         IN  /\ calls' = Append(calls,
                    CallRec("enumerate_adapters", 143, factory, opts.adapter, hr, TRUE))
             /\ checks' = Append(checks, CheckRec(143, obj, hr, r, out))
             /\ adapter' = r.obj
             /\ out' = r.out
             /\ pc' = IF r.panicked THEN "panicked" ELSE AfterSelect(r.obj)
             /\ panicSite' = IF r.panicked THEN "hr_string" ELSE panicSite
    /\ UNCHANGED <<opts, host, msgTable, i, factory, device, cmd_queue>>

(* line 151 *)
CreateDevice ==
    /\ pc = "create_device"
    /\ \E hr \in CallResults :
         LET obj == Produced(hr, Handle("device", 0))
             r == check_hr(obj, hr, 151, out)
         IN  /\ calls' = Append(calls, CallRec("Device::create", 151, adapter, 0, hr, TRUE))
             /\ checks' = Append(checks, CheckRec(151, obj, hr, r, out))
             /\ device' = r.obj
             /\ out' = r.out
             /\ pc' = IF r.panicked THEN "panicked" ELSE "create_queue"
             /\ panicSite' = IF r.panicked THEN "hr_string" ELSE panicSite
    /\ UNCHANGED <<opts, host, msgTable, i, factory, adapter, cmd_queue>>

(* line 153 on a null device: the method call dereferences the null COM
   pointer, an access violation *)
CreateQueueNullDevice ==
    /\ pc = "create_queue"
    /\ is_null(device)
    /\ calls' = Append(calls, CallRec("create_command_queue", 153, device, 0, S_OK, FALSE))
    /\ pc' = "crashed"
    /\ UNCHANGED <<opts, host, msgTable, panicSite, i, factory, adapter, device,
                   cmd_queue, checks, out>>

(* lines 153-158 *)
CreateQueue ==
    /\ pc = "create_queue"
    /\ ~is_null(device)
    /\ \E hr \in CallResults :
         LET obj == Produced(hr, Handle("queue", 0))
             r == check_hr(obj, hr, 153, out)
         IN  /\ calls' = Append(calls, CallRec("create_command_queue", 153, device, 0, hr, TRUE))
             /\ checks' = Append(checks, CheckRec(153, obj, hr, r, out))
             /\ cmd_queue' = r.obj
             /\ out' = r.out
             /\ pc' = IF r.panicked THEN "panicked" ELSE "window"
             /\ panicSite' = IF r.panicked THEN "hr_string" ELSE panicSite
    /\ UNCHANGED <<opts, host, msgTable, i, factory, adapter, device>>

(* lines 161-170: the window is built, or expect("Failed to create a window") fires *)
CreateWindow ==
    /\ pc = "window"
    /\ \E built \in BOOLEAN :
         /\ pc' = IF built THEN "swapchain" ELSE "panicked"
         /\ panicSite' = IF built THEN panicSite ELSE "window"
    /\ UNCHANGED <<opts, host, msgTable, i, factory, adapter, device, cmd_queue,
                   calls, checks, out>>

(* lines 172-190: a null command queue is refused by the platform *)
CreateSwapchain ==
    /\ pc = "swapchain"
    /\ \E hr \in CallResults :
         LET obj == Produced(hr, Handle("swapchain", 0))
             r == check_hr(obj, hr, 186, out)
         IN  /\ is_null(cmd_queue) => hr = E_FAIL
             /\ calls' = Append(calls,
                    CallRec("create_swapchain_for_hwnd", 186, cmd_queue, 0, hr, TRUE))
             /\ checks' = Append(checks, CheckRec(186, obj, hr, r, out))
             /\ out' = r.out
             /\ pc' = IF r.panicked THEN "panicked" ELSE "event_loop"
             /\ panicSite' = IF r.panicked THEN "hr_string" ELSE panicSite
    /\ UNCHANGED <<opts, host, msgTable, i, factory, adapter, device, cmd_queue>>

(* lines 192-203: the first event sets ControlFlow::Exit *)
RunEventLoop ==
    /\ pc = "event_loop"
    /\ pc' = "exited"
    /\ UNCHANGED <<opts, host, msgTable, panicSite, i, factory, adapter, device,
                   cmd_queue, calls, checks, out>>

Next ==
    \/ CreateFactory
    \/ GetDebug
    \/ EnumNullFactory
    \/ EnumDisplay
    \/ EnumBreak
    \/ EnumFail
    \/ SelectWarp
    \/ SelectByIndex
    \/ CreateDevice
    \/ CreateQueueNullDevice
    \/ CreateQueue
    \/ CreateWindow
    \/ CreateSwapchain
    \/ RunEventLoop

Spec == Init /\ [][Next]_vars

(* One pass of the loop body of lines 107-128 *)
LoopStep == EnumNullFactory \/ EnumDisplay \/ EnumBreak \/ EnumFail

(* The loop runs on main's own thread, synchronously: while main is in the
   loop, the next iteration is eventually executed *)
FairSpec == Spec /\ WF_vars(LoopStep)

----------------------------------------------------------------------------
(* Reading the run back from the call history and from standard output *)

Contains(line, sub) ==
    \E p \in 1..(Len(line) - Len(sub) + 1) : SubSeq(line, p, p + Len(sub) - 1) = sub

StartsWith(line, pre) == Len(line) >= Len(pre) /\ SubSeq(line, 1, Len(pre)) = pre

Marked(line) == StartsWith(line, Sparkle \o AdapterWord)
Unmarked(line) == StartsWith(line, <<SPACE>> \o AdapterWord)
IsAdapterLine(line) == Marked(line) \/ Unmarked(line)

RECURSIVE ParseNat(_, _, _)
ParseNat(line, p, acc) ==
    IF p <= Len(line) /\ line[p] >= 48 /\ line[p] <= 57
    THEN ParseNat(line, p + 1, 10 * acc + (line[p] - 48))
    ELSE acc

(* the adapter number printed on an inventory line *)
LineIndex(line) ==
    ParseNat(line, (IF Marked(line) THEN Len(Sparkle) ELSE 1) + Len(AdapterWord) + 1, 0)

AdapterLines == {k \in DOMAIN out : IsAdapterLine(out[k])}
MarkedLines == {k \in DOMAIN out : Marked(out[k])}

FailureLines(o) == {k \in DOMAIN o : Contains(o[k], CrossMark)}

InLoop(c) == c.fn = "enumerate_adapters" /\ c.line = 108
LoopCalls == SelectSeq(calls, InLoop)

DeviceStages == {"create_device", "create_queue", "window", "swapchain",
                 "event_loop", "exited"}

OutOfRange == ~opts.warp /\ opts.adapter >= host

SelectionIssued == \E k \in DOMAIN calls : calls[k].line \in {137, 143}

Failed(c) == c.returned /\ c.hr < 0

LoopUnexpectedFailure ==
    \E k \in DOMAIN calls :
        InLoop(calls[k]) /\ Failed(calls[k]) /\ calls[k].hr # DXGI_ERROR_NOT_FOUND

(* the line of the platform call a check_hr! at `line` wraps *)
CallLineOf(line) == IF line = 134 THEN 137 ELSE line

----------------------------------------------------------------------------
(* C1: with an explicit adapter index n >= N (N adapters on the host), the
   selection call yields a null handle, the process stops at the selection
   (main returns at line 145, unless the logging of that failure itself
   panicked), and no device-create call is ever issued: no device stage is
   ever reached and no device handle is ever held. *)
C1_OutOfRangeIndexNeverCreatesDevice ==
    OutOfRange =>
        /\ \A k \in DOMAIN calls : calls[k].fn # "Device::create"
        /\ pc \notin DeviceStages
        /\ is_null(device)
        /\ SelectionIssued =>
              /\ is_null(adapter)
              /\ calls[Len(calls)].line = 143
              /\ \/ pc = "AdapterSelectionFailed"
                 \/ pc = "panicked" /\ checks[Len(checks)].line = 143

C1_Witness ==
    /\ OutOfRange
    /\ host = 2
    /\ pc = "AdapterSelectionFailed"
    /\ calls[Len(calls)].line = 143
    /\ calls[Len(calls)].hr = DXGI_ERROR_NOT_FOUND
    /\ Cardinality(AdapterLines) = 2

(* C2: a selection failure is fatal before any device creation: the device-create
   call is never issued with a null adapter handle, and once selection has
   produced a null handle the process has stopped. *)
C2_NullAdapterNeverReachesCreateDevice ==
    /\ \A k \in DOMAIN calls : calls[k].fn = "Device::create" => ~is_null(calls[k].h)
    /\ (SelectionIssued /\ is_null(adapter)) => pc \in {"AdapterSelectionFailed", "panicked"}

(* C3: a device-creation failure is fatal: after a device-create call that
   returned a failure status no further call is issued, so command-queue
   creation, window creation and swapchain setup are never reached. *)
C3_FailedDeviceIsLastCall ==
    \A k \in DOMAIN calls :
        (calls[k].fn = "Device::create" /\ Failed(calls[k])) =>
            /\ k = Len(calls)
            /\ pc \notin {"window", "swapchain", "event_loop", "exited"}

(* C4, as stated: an unexpected failure of the enumeration call ends only the
   loop; main has not returned because of it. *)
C4_Original_EnumFailureDoesNotEndProcess ==
    LoopUnexpectedFailure => pc # "EnumFailed"

(* C4, amended: an unexpected failure of the enumeration call ends the whole
   process at that point (main prints the failure and returns, or the
   rendering of the status panics): the failed call is the last platform call,
   no adapter is selected and no device is created. *)
C4_EnumFailureEndsProcess ==
    LoopUnexpectedFailure =>
        /\ pc \in {"EnumFailed", "panicked"}
        /\ InLoop(calls[Len(calls)])
        /\ ~SelectionIssued
        /\ is_null(adapter) /\ is_null(device)

C4_Witness ==
    /\ LoopUnexpectedFailure
    /\ pc = "EnumFailed"
    /\ i = 1
    /\ host = 3
    /\ Contains(out[Len(out)], Caption(125) \o Digits(1))

(* C5: the diagnostic layer never panics: every executed check_hr! returned
   the wrapped value to its caller. *)
C5_CheckHrNeverPanics ==
    \A k \in DOMAIN checks : ~checks[k].panicked /\ checks[k].ret = checks[k].obj

(* C6: for every success status, check_hr! writes nothing, returns the wrapped
   value unmodified, and the wrapped call was issued exactly once. *)
C6_SuccessIsSilent ==
    \A k \in DOMAIN checks :
        checks[k].hr >= 0 =>
            /\ checks[k].lines = <<>>
            /\ ~checks[k].panicked
            /\ checks[k].ret = checks[k].obj
            /\ Cardinality({c \in DOMAIN calls :
                               calls[c].line = CallLineOf(checks[k].line)}) = 1

C6_Witness ==
    /\ pc = "exited"
    /\ Len(checks) = 6
    /\ \A k \in DOMAIN checks : checks[k].hr >= 0
    /\ \E k \in DOMAIN checks : checks[k].hr = S_FALSE
    /\ FailureLines(out) = {}

(* C7: for every failure status, check_hr! writes exactly one line, and that
   line contains the 8 hex digits of the status. *)
C7_FailureIsOneLineWithHex ==
    \A k \in DOMAIN checks :
        checks[k].hr < 0 =>
            /\ Len(checks[k].lines) = 1
            /\ Contains(checks[k].lines[1], Hex8(checks[k].hr))

(* The calls the loop has issued so far: at most N+1, at indices 0, 1, 2, ...
   in order, each once, none after a call that did not succeed *)
C8_LoopCallsBounded ==
    LET L == LoopCalls IN
    /\ Len(L) <= host + 1
    /\ \A k \in DOMAIN L :
          /\ L[k].idx = k - 1
          /\ k < Len(L) => (L[k].returned /\ L[k].hr >= 0)

(* C8: the enumeration loop terminates: it issues at most N+1 enumeration
   calls, at indices 0, 1, 2, ... in order, each once, none after a call that
   did not succeed; and whenever main is in the loop it eventually leaves it. *)
C8_EnumerationTerminates ==
    /\ []C8_LoopCallsBounded
    /\ (pc = "enum_loop") ~> (pc # "enum_loop")

C8_Witness ==
    /\ host = 3
    /\ pc = "select"
    /\ Len(LoopCalls) = 4
    /\ LoopCalls[4].hr = DXGI_ERROR_NOT_FOUND

(* C9: marking of the printed inventory: a printed adapter is marked exactly
   when the software adapter is not requested and its number is the requested
   index; so none is marked under --warp, at most one is marked, and once the
   loop has passed the requested index (0 by default) that adapter is the
   marked one. *)
C9_MarkingRule ==
    /\ \A k \in AdapterLines :
          Marked(out[k]) <=> (~opts.warp /\ LineIndex(out[k]) = opts.adapter)
    /\ opts.warp => MarkedLines = {}
    /\ Cardinality(MarkedLines) <= 1
    /\ (~opts.warp /\ i > opts.adapter) =>
          \E k \in MarkedLines : LineIndex(out[k]) = opts.adapter

C9_Witness ==
    /\ host = 3
    /\ ~opts.warp /\ opts.adapter = 0
    /\ pc = "select"
    /\ Cardinality(AdapterLines) = 3
    /\ \E k \in MarkedLines : LineIndex(out[k]) = 0

(* The step being taken is a loop iteration whose GetDesc call failed *)
GetDescFailedInStep ==
    /\ Len(calls') = Len(calls) + 2
    /\ calls'[Len(calls')].fn = "GetDesc"
    /\ calls'[Len(calls')].hr < 0

(* C10: a failed descriptor query during display is logged and does not end
   the inventory: the step in which GetDesc fails writes a failure line and
   the loop goes on to the next index. *)
C10_FailedGetDescIsLogged ==
    [][GetDescFailedInStep =>
          /\ Cardinality(FailureLines(out')) > Cardinality(FailureLines(out))
          /\ pc' = "enum_loop"
          /\ i' = i + 1]_vars

====
